---- MODULE Spec2Model ----
(***************************************************************************)
(* Verification model of the feature-selection core:                       *)
(*   src/src/enumerables.py        CVSplit.from_str                         *)
(*   src/src/feature_selection.py  select_features_by_univariate_rank,      *)
(*                                 remove_weak_features,                    *)
(*                                 select_stepwise_features                 *)
(* Each component has its own specification (SpecCV, SpecRank, SpecWeak,   *)
(* SpecStep); the variables of the other components stay at their initial  *)
(* values.                                                                  *)
(***************************************************************************)
EXTENDS Integers, Sequences, FiniteSets, TLC

VARIABLES cv_s, cv_ret, last_holdout,
          rk_df, rk_metric, rk_n, rk_scored, rk_importances, rk_ret,
          UNCORRELATED, serialized, wk, decorr_runs, calls,
          sw_pc, sw_df, sw_n, sw_direction, sw_X, sw_y, sw_support, sw_steps, sw_ret

cv_vars == <<cv_s, cv_ret, last_holdout>>

rk_vars == <<rk_df, rk_metric, rk_n, rk_scored, rk_importances, rk_ret>>

wk_vars == <<UNCORRELATED, serialized, wk, decorr_runs, calls>>

sw_vars == <<sw_pc, sw_df, sw_n, sw_direction, sw_X, sw_y, sw_support, sw_steps, sw_ret>>

vars == <<cv_vars, rk_vars, wk_vars, sw_vars>>

(***************************************************************************)
(* Bounds                                                                   *)
(***************************************************************************)
\* longest argument string handed to CVSplit.from_str
MaxStrLen == 3

\* number of feature columns a dataset of the univariate selector can have
MaxFeatures == 2

\* largest score of a feature (scores are NaN or 0..MaxScore)
MaxScore == 1

\* largest requested feature count
MaxN == 3

\* number of feature columns a dataset of the stepwise selector can have
MaxStepFeatures == 3

\* number of rows of a dataset of the stepwise selector
StepRows == 2

\* number of pipeline runs that may call remove_weak_features concurrently
NumRuns == 2

\* number of calls of remove_weak_features made in all
MaxCalls == 3

(***************************************************************************)
(* The values the variables have before any call                            *)
(***************************************************************************)
\* the label of the column "target"
Target == 0

\* float() raised
NoFloat == [ok |-> FALSE, nan |-> FALSE, neg |-> FALSE, mant |-> 0, scale |-> 0]

NotCalled ==
    [status |-> "none", exc |-> "", site |-> "", member |-> "", warned |-> FALSE]

NoHoldout == [set |-> FALSE, cv |-> NoFloat, ret |-> NotCalled]

CVIdle ==
    /\ cv_s = <<>>
    /\ cv_ret = NotCalled
    /\ last_holdout = NoHoldout

RankNotCalled == [status |-> "none", exc |-> "", site |-> "", columns |-> <<>>]

RankIdle ==
    /\ rk_df = [columns |-> <<Target>>, sep |-> <<>>]
    /\ rk_metric = <<>>
    /\ rk_n = 0
    /\ rk_scored = ""
    /\ rk_importances = <<>>
    /\ rk_ret = RankNotCalled

\* the file at UNCORRELATED does not exist
Absent == [exists |-> FALSE, complete |-> FALSE, doc |-> <<>>]

WeakNoReturn == [status |-> "none", exc |-> "", none |-> FALSE, df |-> <<>>]

WeakIdleRun ==
    [pc |-> "idle", df |-> <<>>, decorrelate |-> FALSE, cur |-> <<>>,
     cache0 |-> Absent, hit |-> FALSE, seen |-> Absent, stages |-> 0, wrote |-> FALSE,
     after |-> FALSE, ret |-> WeakNoReturn]

WeakIdle ==
    /\ UNCORRELATED = Absent
    /\ serialized = TRUE
    /\ wk = [p \in 1..NumRuns |-> WeakIdleRun]
    /\ decorr_runs = 0
    /\ calls = 0

StepNoReturn == [status |-> "none", columns |-> <<>>, target |-> <<>>]

StepIdle ==
    /\ sw_pc = "idle"
    /\ sw_df = [columns |-> <<Target>>, target |-> <<>>]
    /\ sw_n = 0
    /\ sw_direction = "forward"
    /\ sw_X = <<>>
    /\ sw_y = <<>>
    /\ sw_support = {}
    /\ sw_steps = 0
    /\ sw_ret = StepNoReturn

(***************************************************************************)
(* Python strings are sequences of characters.                             *)
(***************************************************************************)
Alphabet == {"0", "1", "2", "."}

\* further arguments: signed numerals, nan, and the values of CVSplit's members
Words ==
    { <<"-">>, <<"-", "0">>, <<"-", "1">>, <<"-", "2">>, <<"-", ".", "1">>,
      <<"-", "0", ".", "2">>, <<"-", "1", ".", "1">>, <<"-", "-", "1">>,
      <<"1", "-">>, <<"-", ".">>,
      <<"n", "a", "n">>, <<"-", "n", "a", "n">>, <<"n", "a">>,
      <<"3", "-", "f", "o", "l", "d">>, <<"h", "o", "l", "d", "o", "u", "t">> }

Strings == (UNION {[1..n -> Alphabet] : n \in 0..MaxStrLen}) \cup Words

Digits == {"0", "1", "2"}

DigitVal(c) == IF c = "0" THEN 0 ELSE IF c = "1" THEN 1 ELSE 2

IsDigits(w) == \A i \in 1..Len(w) : w[i] \in Digits

RECURSIVE ToNat(_)
ToNat(w) == IF w = <<>> THEN 0
            ELSE ToNat(SubSeq(w, 1, Len(w) - 1)) * 10 + DigitVal(w[Len(w)])

RECURSIVE Pow10(_)
Pow10(n) == IF n = 0 THEN 1 ELSE 10 * Pow10(n - 1)

(***************************************************************************)
(* float(s): a float is nan or (-1)^neg * mant / 10^scale.  The grammar is *)
(* Python's float() restricted to Alphabet:                                 *)
(*   ["-"] (digit+ ["." digit*] | "." digit+)   or   ["-"] "nan"            *)
(* ok = FALSE stands for the exception float() raises.                      *)
(***************************************************************************)
float(s) ==
    LET neg  == s # <<>> /\ s[1] = "-"
        body == IF neg THEN Tail(s) ELSE s
        dots == {i \in 1..Len(body) : body[i] = "."}
    IN  IF body = <<"n", "a", "n">>
        THEN [ok |-> TRUE, nan |-> TRUE, neg |-> FALSE, mant |-> 0, scale |-> 0]
        ELSE IF Cardinality(dots) > 1 THEN NoFloat
        ELSE IF dots = {}
        THEN IF body # <<>> /\ IsDigits(body)
             THEN [ok |-> TRUE, nan |-> FALSE, neg |-> neg,
                   mant |-> ToNat(body), scale |-> 0]
             ELSE NoFloat
        ELSE LET d  == CHOOSE i \in dots : TRUE
                 ip == SubSeq(body, 1, d - 1)
                 fp == SubSeq(body, d + 1, Len(body))
             IN  IF IsDigits(ip) /\ IsDigits(fp) /\ Len(ip) + Len(fp) >= 1
                 THEN [ok |-> TRUE, nan |-> FALSE, neg |-> neg,
                       mant |-> ToNat(ip \o fp), scale |-> Len(fp)]
                 ELSE NoFloat

\* comparisons of a float with the literals of from_str (all FALSE on nan)
isnan(cv) == cv.nan

\* mutant of LeZero: the guard typed as cv <= 1
LeZero_le_one(cv) == ~cv.nan /\ (cv.neg \/ cv.mant <= Pow10(cv.scale))

LeZero(cv) == ~cv.nan /\ (cv.neg \/ cv.mant = 0)

GtZero(cv) == ~cv.nan /\ ~cv.neg /\ cv.mant > 0

EqOne(cv) == ~cv.nan /\ ~cv.neg /\ cv.mant = Pow10(cv.scale)

LtOne(cv) == ~cv.nan /\ (cv.neg \/ cv.mant < Pow10(cv.scale))

GtOne(cv) == ~cv.nan /\ ~cv.neg /\ cv.mant > Pow10(cv.scale)

GtTen(cv) == ~cv.nan /\ ~cv.neg /\ cv.mant > 10 * Pow10(cv.scale)

is_integer(cv) == ~cv.nan /\ cv.mant % Pow10(cv.scale) = 0

\* cv != round(cv); round(nan) raises ValueError instead of answering
round_raises(cv) == cv.nan

NeRound(cv) == ~is_integer(cv)

SameFloat(a, b) ==
    /\ ~a.nan /\ ~b.nan
    /\ a.mant * Pow10(b.scale) = b.mant * Pow10(a.scale)
    /\ (a.neg = b.neg \/ a.mant = 0)

(***************************************************************************)
(* select_features_by_univariate_rank                                       *)
(*                                                                          *)
(* A dataset is its column labels, in order, and for every feature column  *)
(* the value the metric of the call computes from its cells (sep).  The    *)
(* column "target" is label Target.  A Series is a sequence of             *)
(* [label, value] entries.                                                  *)
(***************************************************************************)
NaN == -1

ScoreVals == {NaN} \cup (0..MaxScore)

Min(a, b) == IF a < b THEN a ELSE b

Max(a, b) == IF a < b THEN b ELSE a

Range(f) == {f[i] : i \in DOMAIN f}

Injective(f) == \A i, j \in DOMAIN f : f[i] = f[j] => i = j

ColumnLists ==
    {c \in UNION {[1..n -> 0..MaxFeatures] : n \in 1..(MaxFeatures + 1)} :
        Injective(c) /\ Target \in Range(c)}

RankDatasets ==
    UNION { {[columns |-> c, sep |-> v] : v \in [Range(c) \ {Target} -> ScoreVals]} :
            c \in ColumnLists }

\* metric identifiers, as Python strings
MetricIds ==
    { <<"d">>, <<"D">>, <<"a", "u", "c">>, <<"A", "U", "C">>, <<"A", "u", "c">>,
      <<"p", "e", "a", "r", "s", "o", "n">>, <<"P", "e", "a", "r", "s", "o", "n">>,
      <<"s", "p", "e", "a", "r", "m", "a", "n">>,
      <<"S", "P", "E", "A", "R", "M", "A", "N">>,
      <<"k", "e", "n", "d", "a", "l", "l">>, <<"x">>, <<>> }

UpperCase ==
    <<"A", "B", "C", "D", "E", "F", "G", "H", "I", "J", "K", "L", "M",
      "N", "O", "P", "Q", "R", "S", "T", "U", "V", "W", "X", "Y", "Z">>

LowerCase ==
    <<"a", "b", "c", "d", "e", "f", "g", "h", "i", "j", "k", "l", "m",
      "n", "o", "p", "q", "r", "s", "t", "u", "v", "w", "x", "y", "z">>

\* str.lower()
lower(m) ==
    [i \in 1..Len(m) |->
        IF \E k \in 1..26 : UpperCase[k] = m[i]
        THEN LowerCase[CHOOSE k \in 1..26 : UpperCase[k] = m[i]]
        ELSE m[i]]

\* df.drop(columns="target").columns
drop_target(df) == SelectSeq(df.columns, LAMBDA c : c # Target)

\* the Series a metric function returns: one entry per feature, in column order
cohens_d(df) ==
    LET X == drop_target(df)
    IN  [i \in 1..Len(X) |-> [label |-> X[i], value |-> df.sep[X[i]]]]

auroc(df) ==
    LET X == drop_target(df)
    IN  [i \in 1..Len(X) |-> [label |-> X[i], value |-> df.sep[X[i]]]]

\* X.corrwith(y, method=method).abs(); pandas knows the method names in lower
\* case only and raises ValueError for any other string (ok = FALSE)
correlations(df, method) ==
    LET X == drop_target(df)
    IN  IF method \in { <<"p", "e", "a", "r", "s", "o", "n">>,
                        <<"s", "p", "e", "a", "r", "m", "a", "n">> }
        THEN [ok |-> TRUE,
              series |-> [i \in 1..Len(X) |-> [label |-> X[i], value |-> df.sep[X[i]]]]]
        ELSE [ok |-> FALSE, series |-> <<>>]

\* a sorts strictly before b in descending order, NaN last
Before(a, b) == a # NaN /\ (b = NaN \/ a > b)

Orderings(n) == {f \in [1..n -> 1..n] : Injective(f)}

\* Series.sort_values(ascending=False) with the default kind "quicksort": the
\* result is in descending order, the NaN entries last in their original
\* order; quicksort is not a stable sort, so entries of equal value come out
\* in any order.
sort_values(series) ==
    { [i \in 1..Len(series) |-> series[f[i]]] :
        f \in {g \in Orderings(Len(series)) :
                 \A i, j \in 1..Len(series) :
                    i < j =>
                      /\ ~Before(series[g[j]].value, series[g[i]].value)
                      /\ (series[g[i]].value = NaN /\ series[g[j]].value = NaN)
                            => g[i] < g[j]} }

\* importances[:n_features], a Python slice
head(series, n) ==
    IF n >= 0 THEN SubSeq(series, 1, Min(n, Len(series)))
    ELSE SubSeq(series, 1, Max(Len(series) + n, 0))

\* df.loc[:, index]: the columns named by the index, in its order
loc_columns(df, series) == [i \in 1..Len(series) |-> series[i].label]

RankReturned(cols) == [status |-> "returned", exc |-> "", site |-> "", columns |-> cols]

RankRaised(exc, site) == [status |-> "raised", exc |-> exc, site |-> site, columns |-> <<>>]

\* the metric function the dispatch on metric.lower() calls ("" for none)
dispatch(metric) ==
    IF lower(metric) = <<"d">> THEN "cohens_d"
    ELSE IF lower(metric) = <<"a", "u", "c">> THEN "auroc"
    ELSE IF lower(metric) \in { <<"p", "e", "a", "r", "s", "o", "n">>,
                                <<"s", "p", "e", "a", "r", "m", "a", "n">> }
    THEN "correlations"
    ELSE ""

\* mutant of scores: an unrecognised metric falls back to Cohen's d
scores_default_d(df, metric) ==
    LET f == dispatch(metric)
    IN  IF f = "auroc" THEN [called |-> f, ok |-> TRUE, series |-> auroc(df)]
        ELSE IF f = "correlations"
        THEN [called |-> f, ok |-> correlations(df, metric).ok,
              series |-> correlations(df, metric).series]
        ELSE [called |-> "cohens_d", ok |-> TRUE, series |-> cohens_d(df)]

\* the unsorted scores of the call: which function ran and what it returned
scores(df, metric) ==
    LET f == dispatch(metric)
    IN  IF f = "cohens_d" THEN [called |-> f, ok |-> TRUE, series |-> cohens_d(df)]
        ELSE IF f = "auroc" THEN [called |-> f, ok |-> TRUE, series |-> auroc(df)]
        ELSE IF f = "correlations"
        THEN [called |-> f, ok |-> correlations(df, metric).ok,
              series |-> correlations(df, metric).series]
        ELSE [called |-> "", ok |-> FALSE, series |-> <<>>]

RankInit ==
    /\ rk_df \in RankDatasets
    /\ rk_metric \in MetricIds
    /\ rk_n \in (-1)..MaxN
    /\ rk_scored = ""
    /\ rk_importances = <<>>
    /\ rk_ret = RankNotCalled
    /\ CVIdle
    /\ WeakIdle
    /\ StepIdle

select_features_by_univariate_rank ==
    /\ rk_ret.status = "none"
    /\ LET sc == scores(rk_df, rk_metric)
       IN  /\ rk_scored' = sc.called
           /\ IF sc.called = ""
              THEN /\ rk_ret' = RankRaised("ValueError", "metric")
                   /\ rk_importances' = <<>>
              ELSE IF ~sc.ok
              THEN /\ rk_ret' = RankRaised("ValueError", "method")
                   /\ rk_importances' = <<>>
              ELSE \E importances \in sort_values(sc.series) :
                     /\ rk_importances' = importances
                     /\ rk_ret' = RankReturned(loc_columns(rk_df, head(importances, rk_n)))
    /\ UNCHANGED <<rk_df, rk_metric, rk_n>>
    /\ UNCHANGED <<cv_vars, wk_vars, sw_vars>>

RankNext == select_features_by_univariate_rank

SpecRank == RankInit /\ [][RankNext]_vars

(***************************************************************************)
(* Claims about select_features_by_univariate_rank                          *)
(***************************************************************************)
RecognizedMetrics ==
    { <<"d">>, <<"a", "u", "c">>, <<"p", "e", "a", "r", "s", "o", "n">>,
      <<"s", "p", "e", "a", "r", "m", "a", "n">> }

\* position of a column in the input dataset
ColumnPosition(c) == CHOOSE i \in 1..Len(rk_df.columns) : rk_df.columns[i] = c

\* C4 (as claimed): for a requested count N >= 0 and M feature columns the
\* returned dataset has exactly min(N, M) feature columns and the target column.
C4_TopNPlusTarget ==
    (rk_ret.status = "returned" /\ rk_n >= 0) =>
        /\ Target \in Range(rk_ret.columns)
        /\ Cardinality(Range(rk_ret.columns) \ {Target})
              = Min(rk_n, Len(drop_target(rk_df)))

\* C5 (as claimed): every metric identifier that is not one of d, auc,
\* pearson, spearman makes the call raise before any score is computed, and
\* no dataset is returned.
C5_UnrecognizedRaises ==
    (rk_ret.status # "none" /\ rk_metric \notin RecognizedMetrics) =>
        /\ rk_ret = RankRaised("ValueError", "metric")
        /\ rk_scored = "" /\ rk_importances = <<>>

\* C5 (amended): every metric identifier whose lower-case form is not one of
\* d, auc, pearson, spearman makes the call raise ValueError before any score
\* is computed, and no dataset is returned; no metric is used in its place.
C5_UnrecognizedLowerRaises ==
    (rk_ret.status # "none" /\ lower(rk_metric) \notin RecognizedMetrics) =>
        /\ rk_ret = RankRaised("ValueError", "metric")
        /\ rk_scored = "" /\ rk_importances = <<>>

C5_Witness ==
    /\ rk_metric = <<"k", "e", "n", "d", "a", "l", "l">>
    /\ Len(rk_df.columns) > 1
    /\ rk_ret.status = "raised"

\* C9 (as claimed): the ranking is in descending order of score and features
\* of equal score keep their original column order.
C9_StableDescending ==
    rk_ret.status = "returned" =>
        \A i, j \in 1..Len(rk_importances) :
            i < j =>
                /\ ~Before(rk_importances[j].value, rk_importances[i].value)
                /\ rk_importances[i].value = rk_importances[j].value
                     => ColumnPosition(rk_importances[i].label)
                          < ColumnPosition(rk_importances[j].label)

(***************************************************************************)
(* remove_weak_features                                                     *)
(*                                                                          *)
(* A DataFrame is a sequence of columns [name, vals]; vals has one cell    *)
(* per row (RangeIndex 0..n-1), an integer or Null.                         *)
(***************************************************************************)
Null == -99

Col(name, vals) == [name |-> name, vals |-> vals]

ColTarget == Col("target", <<0, 1, 1>>)

WeakDatasets ==
    { <<Col("c", <<1, 1, 1>>), Col("a", <<1, 2, 3>>), Col("b", <<2, 4, 6>>), ColTarget>>,
      <<Col("a", <<1, 2, 3>>), Col("u", <<1, 3, 1>>), ColTarget>>,
      <<Col("m", <<2, Null, 2>>), Col("b", <<2, 4, 6>>), Col("w", <<3, 2, 1>>),
        Col("z", <<Null, Null, Null>>), ColTarget>> }

RECURSIVE SumSeq(_)
SumSeq(w) == IF w = <<>> THEN 0 ELSE w[1] + SumSeq(Tail(w))

\* Series.nunique(dropna)
nunique(vals, dropna) ==
    Cardinality({vals[i] : i \in 1..Len(vals)} \ (IF dropna THEN {Null} ELSE {}))

\* featuretools.selection.remove_single_value_features (count_nan_as_value=False)
remove_single_value_features(df) ==
    SelectSeq(df, LAMBDA c : nunique(c.vals, TRUE) > 1)

\* featuretools.selection.remove_low_information_features: at least two unique
\* values and not all null
remove_low_information_features(df) ==
    SelectSeq(df, LAMBDA c : /\ nunique(c.vals, FALSE) > 1
                             /\ \E i \in 1..Len(c.vals) : c.vals[i] # Null)

\* abs(x.corr(y)) >= 0.95 (Pearson over the rows where both are present);
\* the correlation of a constant or of fewer than two rows is NaN: FALSE
highly_correlated(x, y) ==
    LET rows == SelectSeq([i \in 1..Len(x) |-> i], LAMBDA i : x[i] # Null /\ y[i] # Null)
        n    == Len(rows)
        sx   == SumSeq([k \in 1..n |-> x[rows[k]]])
        sy   == SumSeq([k \in 1..n |-> y[rows[k]]])
        sxy  == SumSeq([k \in 1..n |-> x[rows[k]] * y[rows[k]]])
        sxx  == SumSeq([k \in 1..n |-> x[rows[k]] * x[rows[k]]])
        syy  == SumSeq([k \in 1..n |-> y[rows[k]] * y[rows[k]]])
        cxy  == n * sxy - sx * sy
        vx   == n * sxx - sx * sx
        vy   == n * syy - sy * sy
    IN  n >= 2 /\ vx > 0 /\ vy > 0 /\ 400 * cxy * cxy >= 361 * vx * vy

\* featuretools.selection.remove_highly_correlated_features: a column is
\* dropped when it is highly correlated with a column to its left
remove_highly_correlated_features(df) ==
    LET dropped == {i \in 1..Len(df) :
                      \E j \in 1..(i - 1) : highly_correlated(df[i].vals, df[j].vals)}
        keep == SelectSeq([i \in 1..Len(df) |-> i], LAMBDA i : i \notin dropped)
    IN  [k \in 1..Len(keep) |-> df[keep[k]]]

\* DataFrame.to_json, orient "columns": {column: {row label: cell}}
to_json(df) ==
    [c \in 1..Len(df) |->
        [key |-> df[c].name,
         obj |-> [i \in 1..Len(df[c].vals) |->
                    [k |-> ToString(i - 1), v |-> df[c].vals[i]]]]]

\* pd.read_json: the columns in document order, the row labels converted back
\* to integers and the cells placed by row label
read_json(doc) ==
    [c \in 1..Len(doc) |->
        [name |-> doc[c].key,
         vals |-> [i \in 1..Len(doc[c].obj) |->
                     (CHOOSE e \in Range(doc[c].obj) : e.k = ToString(i - 1)).v]]]

File(doc) == [exists |-> TRUE, complete |-> TRUE, doc |-> doc]

\* a file that to_json has opened and not written out yet
Partial == [exists |-> TRUE, complete |-> FALSE, doc |-> <<>>]

\* mutant of exists: the cache file is never looked for
exists_never(file) == FALSE

\* Path.exists()
exists(file) == file.exists

WeakReturned(df) == [status |-> "returned", exc |-> "", none |-> FALSE, df |-> df]

\* the function ends without a return statement: the caller gets None
WeakReturnedNone == [status |-> "returned", exc |-> "", none |-> TRUE, df |-> <<>>]

WeakRaised(exc) == [status |-> "raised", exc |-> exc, none |-> FALSE, df |-> <<>>]

WeakInit ==
    /\ UNCORRELATED \in {Absent} \cup {File(to_json(d)) : d \in WeakDatasets}
    /\ serialized \in BOOLEAN
    /\ wk = [p \in 1..NumRuns |-> WeakIdleRun]
    /\ decorr_runs = 0
    /\ calls = 0
    /\ CVIdle
    /\ RankIdle
    /\ StepIdle

WeakFrame == UNCHANGED <<cv_vars, rk_vars, sw_vars, serialized>>

\* run p calls remove_weak_features(df, decorrelate) and tests UNCORRELATED.exists();
\* when the runs are serialized externally no other call is in progress
Call(p) ==
    /\ wk[p].pc \in {"idle", "done"}
    /\ calls < MaxCalls
    /\ serialized => \A q \in 1..NumRuns : wk[q].pc \in {"idle", "done"}
    /\ \E df \in WeakDatasets, decorrelate \in BOOLEAN :
          wk' = [wk EXCEPT ![p] =
                   [pc |-> IF exists(UNCORRELATED) THEN "read" ELSE "filter",
                    df |-> df, decorrelate |-> decorrelate, cur |-> <<>>,
                    cache0 |-> UNCORRELATED,
                    hit |-> exists(UNCORRELATED), seen |-> Absent, stages |-> 0,
                    wrote |-> FALSE, after |-> decorr_runs > 0,
                    ret |-> WeakNoReturn]]
    /\ calls' = calls + 1
    /\ UNCHANGED <<UNCORRELATED, decorr_runs>>
    /\ WeakFrame

\* return pd.read_json(UNCORRELATED); a file another run is still writing does
\* not parse
ReadCache(p) ==
    /\ wk[p].pc = "read"
    /\ wk' = [wk EXCEPT ![p].pc = "done",
                        ![p].seen = UNCORRELATED,
                        ![p].ret = IF UNCORRELATED.complete
                                   THEN WeakReturned(read_json(UNCORRELATED.doc))
                                   ELSE WeakRaised("ValueError")]
    /\ UNCHANGED <<UNCORRELATED, decorr_runs, calls>>
    /\ WeakFrame

\* the constant and the low-information filter; without decorrelate the call
\* returns df_i here
FilterWeak(p) ==
    /\ wk[p].pc = "filter"
    /\ LET df_v == remove_single_value_features(wk[p].df)
           df_i == remove_low_information_features(df_v)
       IN  wk' = [wk EXCEPT ![p].stages = 2,
                            ![p].cur = df_i,
                            ![p].pc = IF wk[p].decorrelate THEN "decorrelate" ELSE "done",
                            ![p].ret = IF wk[p].decorrelate THEN WeakNoReturn
                                       ELSE WeakReturned(df_i)]
    /\ UNCHANGED <<UNCORRELATED, decorr_runs, calls>>
    /\ WeakFrame

\* df_c = remove_highly_correlated_features(df_i)
Decorrelate(p) ==
    /\ wk[p].pc = "decorrelate"
    /\ wk' = [wk EXCEPT ![p].stages = 3,
                        ![p].cur = remove_highly_correlated_features(wk[p].cur),
                        ![p].pc = "write"]
    /\ decorr_runs' = decorr_runs + 1
    /\ UNCHANGED <<UNCORRELATED, calls>>
    /\ WeakFrame

\* df_c.to_json(UNCORRELATED) opens the file for writing, which creates or
\* truncates it
WriteOpen(p) ==
    /\ wk[p].pc = "write"
    /\ UNCORRELATED' = Partial
    /\ wk' = [wk EXCEPT ![p].pc = "writing", ![p].wrote = TRUE]
    /\ UNCHANGED <<decorr_runs, calls>>
    /\ WeakFrame

\* mutant of WriteClose: the result is not saved
WriteClose_unsaved(p) ==
    /\ wk[p].pc = "writing"
    /\ UNCORRELATED' = Absent
    /\ wk' = [wk EXCEPT ![p].pc = "done", ![p].ret = WeakReturnedNone]
    /\ UNCHANGED <<decorr_runs, calls>>
    /\ WeakFrame

\* to_json writes the document and closes the file; the function then ends
\* after its last print, without a return statement
WriteClose(p) ==
    /\ wk[p].pc = "writing"
    /\ UNCORRELATED' = File(to_json(wk[p].cur))
    /\ wk' = [wk EXCEPT ![p].pc = "done", ![p].ret = WeakReturnedNone]
    /\ UNCHANGED <<decorr_runs, calls>>
    /\ WeakFrame

WeakNext ==
    \E p \in 1..NumRuns :
        \/ Call(p)
        \/ ReadCache(p)
        \/ FilterWeak(p)
        \/ Decorrelate(p)
        \/ WriteOpen(p)
        \/ WriteClose(p)

SpecWeak == WeakInit /\ [][WeakNext]_vars

(***************************************************************************)
(* Claims about remove_weak_features                                        *)
(***************************************************************************)
\* C6: a call that finds the cache file returns the dataset read from it,
\* whatever its arguments are, runs no filter stage and writes nothing; when
\* the calls are serialized the file read is complete and is still the
\* content of the cache after the call.
C6_CacheShortCircuit ==
    \A p \in 1..NumRuns :
        (wk[p].pc = "done" /\ wk[p].cache0.exists) =>
            /\ wk[p].hit
            /\ wk[p].stages = 0
            /\ ~wk[p].wrote
            /\ wk[p].seen.exists
            /\ wk[p].seen.complete => wk[p].ret = WeakReturned(read_json(wk[p].seen.doc))
            /\ serialized => /\ wk[p].seen.complete
                             /\ UNCORRELATED = wk[p].seen

C6_Witness ==
    \E p \in 1..NumRuns :
        /\ wk[p].pc = "done" /\ wk[p].cache0.exists
        /\ wk[p].decorrelate
        /\ wk[p].ret.status = "returned"
        /\ wk[p].ret.df # <<>>
        /\ to_json(wk[p].df) # wk[p].seen.doc

\* C7 (as claimed): a call that finds no cache file has, when it returns,
\* written its filtered dataset to the cache and returns that same dataset,
\* for either value of decorrelate.
C7_FreshIsPersistedAndReturned ==
    \A p \in 1..NumRuns :
        (serialized /\ wk[p].pc = "done" /\ ~wk[p].cache0.exists) =>
            /\ wk[p].ret = WeakReturned(wk[p].cur)
            /\ UNCORRELATED.exists /\ UNCORRELATED.complete
            /\ read_json(UNCORRELATED.doc) = wk[p].ret.df

\* C10: when the calls are serialized the decorrelation stage runs at most
\* once, and every call made after it ran finds the cache and returns what it
\* reads from it.
C10_DecorrelateOnce ==
    serialized =>
        /\ decorr_runs <= 1
        /\ \A p \in 1..NumRuns :
              (wk[p].after /\ wk[p].pc # "idle") =>
                  /\ wk[p].hit
                  /\ wk[p].stages = 0
                  /\ wk[p].pc = "done" => wk[p].ret = WeakReturned(read_json(UNCORRELATED.doc))

C10_Witness ==
    /\ serialized
    /\ decorr_runs = 1
    /\ \E p \in 1..NumRuns :
          wk[p].after /\ wk[p].pc = "done" /\ wk[p].decorrelate /\ wk[p].hit

\* the race of C10: two overlapping calls have both found the cache absent,
\* both have run the decorrelation stage and both have written the cache
C10_RaceReached ==
    /\ ~serialized
    /\ decorr_runs >= 2
    /\ \A p \in 1..NumRuns : wk[p].pc = "done" /\ ~wk[p].hit /\ wk[p].wrote

(***************************************************************************)
(* select_stepwise_features                                                 *)
(*                                                                          *)
(* A dataset is its column labels and the cells of the target column, in   *)
(* halves (3 is 1.5).  SequentialFeatureSelector (src/_sequential.py) is   *)
(* the state machine over feature subsets of the specification: the subset *)
(* starts empty (forward) or full (backward), one step commits the single  *)
(* best change by cross-validated accuracy, and the fit ends at the target *)
(* count.                                                                   *)
(***************************************************************************)
TargetCells == {-3, 0, 1, 2, 3}

StepColumnLists ==
    {c \in UNION {[1..n -> 0..MaxStepFeatures] : n \in 2..(MaxStepFeatures + 1)} :
        /\ Injective(c) /\ Target \in Range(c)
        /\ \A i, j \in 1..Len(c) : (i < j /\ c[i] # Target /\ c[j] # Target) => c[i] < c[j]}

StepDatasets ==
    {[columns |-> c, target |-> y] : c \in StepColumnLists, y \in [1..StepRows -> TargetCells]}

\* mutant of astype_int: the cells are rounded down
astype_int_floor(cells) == [i \in 1..Len(cells) |-> cells[i] \div 2]

\* Series.astype(int): the fraction of every cell is cut off, towards zero
astype_int(cells) ==
    [i \in 1..Len(cells) |->
        IF cells[i] >= 0 THEN cells[i] \div 2 ELSE -((-cells[i]) \div 2)]

\* selector.get_support(): the mask over the columns of X
get_support(X, support) == [i \in 1..Len(X) |-> X[i] \in support]

\* X.loc[:, column_idx]
loc_mask(X, mask) ==
    LET keep == SelectSeq([i \in 1..Len(X) |-> i], LAMBDA i : mask[i])
    IN  [k \in 1..Len(keep) |-> X[keep[k]]]

StepInit ==
    /\ sw_pc = "idle"
    /\ sw_df \in StepDatasets
    /\ sw_n \in 1..MaxStepFeatures
    /\ sw_n <= Len(sw_df.columns) - 1
    /\ sw_direction \in {"forward", "backward"}
    /\ sw_X = <<>>
    /\ sw_y = <<>>
    /\ sw_support = {}
    /\ sw_steps = 0
    /\ sw_ret = StepNoReturn
    /\ CVIdle
    /\ RankIdle
    /\ WeakIdle

StepFrame == UNCHANGED <<cv_vars, rk_vars, wk_vars, sw_df, sw_n, sw_direction>>

\* the selector is built, X and y are split off and selector.fit(X, y) starts
\* from the empty subset (forward) or from the full one (backward)
BeginFit ==
    /\ sw_pc = "idle"
    /\ sw_X' = SelectSeq(sw_df.columns, LAMBDA c : c # Target)
    /\ sw_y' = astype_int(sw_df.target)
    /\ sw_support' = IF sw_direction = "forward" THEN {} ELSE Range(sw_X')
    /\ sw_steps' = 0
    /\ sw_pc' = "fit"
    /\ UNCHANGED sw_ret
    /\ StepFrame

\* one forward step: the candidate with the best cross-validated accuracy,
\* some feature outside the subset, is added
StepForward ==
    /\ sw_pc = "fit" /\ sw_direction = "forward"
    /\ Cardinality(sw_support) # sw_n
    /\ \E f \in Range(sw_X) \ sw_support : sw_support' = sw_support \cup {f}
    /\ sw_steps' = sw_steps + 1
    /\ UNCHANGED <<sw_pc, sw_X, sw_y, sw_ret>>
    /\ StepFrame

\* one backward step: the feature whose removal scores best is removed
StepBackward ==
    /\ sw_pc = "fit" /\ sw_direction = "backward"
    /\ Cardinality(sw_support) # sw_n
    /\ \E f \in sw_support : sw_support' = sw_support \ {f}
    /\ sw_steps' = sw_steps + 1
    /\ UNCHANGED <<sw_pc, sw_X, sw_y, sw_ret>>
    /\ StepFrame

\* the fit is over at the target count: the selected columns of X are copied
\* and the integer target is attached as the last column
FinishFit ==
    /\ sw_pc = "fit"
    /\ Cardinality(sw_support) = sw_n
    /\ LET column_idx == get_support(sw_X, sw_support)
           reduced    == loc_mask(sw_X, column_idx)
       IN  sw_ret' = [status |-> "returned",
                      columns |-> Append(reduced, Target),
                      target |-> sw_y]
    /\ sw_pc' = "done"
    /\ UNCHANGED <<sw_X, sw_y, sw_support, sw_steps>>
    /\ StepFrame

StepNext == BeginFit \/ StepForward \/ StepBackward \/ FinishFit

SpecStep == StepInit /\ [][StepNext]_vars

\* the call runs in one thread, which takes its next step as long as it has one
SpecStepFair == SpecStep /\ WF_vars(StepNext)

(***************************************************************************)
(* Claims about select_stepwise_features                                    *)
(***************************************************************************)
StepFeatures == Range(sw_df.columns) \ {Target}

\* the integer t is the cell h (in halves) with its fraction cut off
IsTruncation(t, h) ==
    /\ (h >= 0 => t >= 0) /\ (h <= 0 => t <= 0)
    /\ LET at == IF t < 0 THEN -t ELSE t
           ah == IF h < 0 THEN -h ELSE h
       IN  2 * at <= ah /\ ah < 2 * at + 2

C8_Subsets ==
    /\ sw_support \subseteq StepFeatures
    /\ sw_pc # "idle" =>
          /\ sw_direction = "forward" => Cardinality(sw_support) = sw_steps
          /\ sw_direction = "backward" =>
                Cardinality(sw_support) = Cardinality(StepFeatures) - sw_steps
    /\ sw_pc = "done" =>
          /\ Cardinality(sw_support) = sw_n
          /\ Len(sw_ret.columns) = sw_n + 1
          /\ sw_ret.columns[sw_n + 1] = Target
          /\ Cardinality(Range(sw_ret.columns) \ {Target}) = sw_n
          /\ Range(sw_ret.columns) \ {Target} \subseteq StepFeatures
          /\ Len(sw_ret.target) = Len(sw_df.target)
          /\ \A i \in 1..Len(sw_ret.target) : IsTruncation(sw_ret.target[i], sw_df.target[i])

\* C8: with 0 < N <= M the selection ends, in either direction, with exactly
\* N feature columns of the input plus the target column coerced to integer;
\* forward starts empty and adds one feature per step, backward starts full
\* and removes one per step, and the steps stop exactly at N features.
C8_StepwiseSelectsN ==
    /\ []C8_Subsets
    /\ [][sw_steps' # sw_steps =>
            /\ sw_steps' = sw_steps + 1
            /\ Cardinality(sw_support) # sw_n
            /\ sw_direction = "forward" =>
                  \E f \in StepFeatures \ sw_support : sw_support' = sw_support \cup {f}
            /\ sw_direction = "backward" =>
                  \E f \in sw_support : sw_support' = sw_support \ {f}]_vars
    /\ <>(sw_pc = "done")

C8_Witness ==
    /\ sw_pc = "done"
    /\ sw_direction = "backward"
    /\ sw_steps = 2
    /\ sw_n = 1
    /\ \E i \in 1..Len(sw_df.target) : sw_df.target[i] = -3

(***************************************************************************)
(* The enumeration CVSplit and the lookup by value CVSplit(value).          *)
(***************************************************************************)
CVSplitMembers ==
    { [name |-> "KFold3",  value |-> <<"3", "-", "f", "o", "l", "d">>],
      [name |-> "KFold5",  value |-> <<"5", "-", "f", "o", "l", "d">>],
      [name |-> "KFold10", value |-> <<"1", "0", "-", "f", "o", "l", "d">>],
      [name |-> "KFold20", value |-> <<"2", "0", "-", "f", "o", "l", "d">>],
      [name |-> "Holdout", value |-> <<"h", "o", "l", "d", "o", "u", "t">>] }

Returned(member, warned) ==
    [status |-> "returned", exc |-> "", site |-> "", member |-> member, warned |-> warned]

Raised(exc, site, warned) ==
    [status |-> "raised", exc |-> exc, site |-> site, member |-> "", warned |-> warned]

\* CVSplit(value): value is a Python object, [type |-> "float"] or a str with
\* its characters.  Members have str values, so no float equals any of them.
CVSplit(value, warned) ==
    LET hits == {m \in CVSplitMembers : value.type = "str" /\ m.value = value.chars}
    IN  IF hits # {}
        THEN Returned((CHOOSE m \in hits : TRUE).name, warned)
        ELSE Raised("ValueError", "enum", warned)

PyFloat(cv) == [type |-> "float", chars |-> <<>>, f |-> cv]

PyStr(s) == [type |-> "str", chars |-> s, f |-> NoFloat]

(***************************************************************************)
(* CVSplit.from_str                                                         *)
(***************************************************************************)
\* mutant of from_str: the holdout test written as cv < 1 and made before
\* the positivity check
from_str_holdout_first(s) ==
    LET cv == float(s)
    IN  IF ~cv.ok THEN Raised("ValueError", "parse", FALSE)
        ELSE IF isnan(cv) THEN Raised("ValueError", "nan", FALSE)
        ELSE IF LtOne(cv) THEN Returned("Holdout", FALSE)
        ELSE IF LeZero(cv) THEN Raised("ValueError", "positive", FALSE)
        ELSE IF EqOne(cv) THEN Raised("ValueError", "one", FALSE)
        ELSE IF GtOne(cv) /\ ~is_integer(cv) THEN Raised("ValueError", "integer", FALSE)
        ELSE IF round_raises(cv) THEN Raised("ValueError", "round", FALSE)
        ELSE IF NeRound(cv) THEN Raised("ValueError", "integer2", FALSE)
        ELSE LET warned == GtTen(cv)
             IN  IF GtOne(cv) THEN CVSplit(PyFloat(cv), warned)
                 ELSE CVSplit(PyStr(s), warned)

from_str(s) ==
    LET cv == float(s)
    IN  IF ~cv.ok THEN Raised("ValueError", "parse", FALSE)
        ELSE IF isnan(cv) THEN Raised("ValueError", "nan", FALSE)
        ELSE IF LeZero(cv) THEN Raised("ValueError", "positive", FALSE)
        ELSE IF EqOne(cv) THEN Raised("ValueError", "one", FALSE)
        ELSE IF GtZero(cv) /\ LtOne(cv) THEN Returned("Holdout", FALSE)
        ELSE IF GtOne(cv) /\ ~is_integer(cv) THEN Raised("ValueError", "integer", FALSE)
        ELSE IF round_raises(cv) THEN Raised("ValueError", "round", FALSE)
        ELSE IF NeRound(cv) THEN Raised("ValueError", "integer2", FALSE)
        ELSE LET warned == GtTen(cv)
             IN  IF GtOne(cv) THEN CVSplit(PyFloat(cv), warned)
                 ELSE CVSplit(PyStr(s), warned)

CVInit ==
    /\ cv_s = <<>>
    /\ cv_ret = NotCalled
    /\ last_holdout = NoHoldout
    /\ RankIdle
    /\ WeakIdle
    /\ StepIdle

\* a caller parses one more argument; it remembers the previous holdout answer
CallFromStr ==
    \E s \in Strings :
        /\ UNCHANGED <<rk_vars, wk_vars, sw_vars>>
        /\ cv_s' = s
        /\ cv_ret' = from_str(s)
        /\ last_holdout' =
              IF cv_ret.status = "returned" /\ cv_ret.member = "Holdout"
              THEN [set |-> TRUE, cv |-> float(cv_s), ret |-> cv_ret]
              ELSE last_holdout

CVNext == CallFromStr

SpecCV == CVInit /\ [][CVNext]_vars

(***************************************************************************)
(* Claims about CVSplit.from_str                                            *)
(***************************************************************************)
\* the argument of the last call parsed to an integer-valued number >= 2
ParsedK ==
    LET cv == float(cv_s)
    IN  /\ cv_ret.status # "none"
        /\ cv.ok /\ ~cv.nan /\ ~cv.neg
        /\ cv.mant % Pow10(cv.scale) = 0
        /\ cv.mant >= 2 * Pow10(cv.scale)

\* the argument of the last call parsed to a number strictly between 0 and 1
ParsedFraction ==
    LET cv == float(cv_s)
    IN  /\ cv_ret.status # "none"
        /\ cv.ok /\ ~cv.nan /\ ~cv.neg
        /\ 0 < cv.mant /\ cv.mant < Pow10(cv.scale)

\* the argument of the last call is unparseable, nan, <= 0, exactly 1, or
\* greater than 1 and not integer-valued
ParsedInvalid ==
    LET cv == float(cv_s)
    IN  /\ cv_ret.status # "none"
        /\ \/ ~cv.ok
           \/ cv.nan
           \/ cv.neg \/ cv.mant = 0
           \/ cv.mant = Pow10(cv.scale)
           \/ cv.mant > Pow10(cv.scale) /\ cv.mant % Pow10(cv.scale) # 0

\* C1 (as claimed): every argument that parses to an integer k >= 2 makes
\* from_str return a k-fold member of CVSplit without raising.
C1_KFoldReturned ==
    ParsedK => /\ cv_ret.status = "returned"
               /\ cv_ret.member \in {"KFold3", "KFold5", "KFold10", "KFold20"}

\* C2 (as claimed): for a fraction x in (0,1) from_str returns Holdout and the
\* returned value retains x, so that the answers to two different fractions
\* are distinguishable.
C2_FractionRetained ==
    ParsedFraction =>
        /\ cv_ret.status = "returned" /\ cv_ret.member = "Holdout"
        /\ (last_holdout.set /\ ~SameFloat(last_holdout.cv, float(cv_s)))
              => last_holdout.ret # cv_ret

\* C2 (amended): for a fraction x in (0,1) from_str returns the member
\* CVSplit.Holdout without raising and without a warning; the returned member
\* does not carry x: it equals the answer given for any earlier fraction.
C2_HoldoutMember ==
    ParsedFraction =>
        /\ cv_ret = Returned("Holdout", FALSE)
        /\ last_holdout.set => last_holdout.ret = cv_ret

C2_Witness ==
    /\ ParsedFraction
    /\ last_holdout.set
    /\ ~SameFloat(last_holdout.cv, float(cv_s))
    /\ cv_ret.member = "Holdout"

\* C3: an argument that is unparseable, nan, <= 0, exactly 1, or greater than
\* 1 and not integer-valued makes from_str raise ValueError; no member is
\* returned and no k > 10 warning has been emitted for it.
C3_InvalidRaises ==
    ParsedInvalid =>
        /\ cv_ret.status = "raised" /\ cv_ret.exc = "ValueError"
        /\ cv_ret.member = ""
        /\ ~cv_ret.warned

C3_Witness ==
    /\ ParsedInvalid
    /\ cv_s = <<"2", ".", "1">>
    /\ cv_ret.status = "raised"

====
